---- MODULE Spec2Model ----
(***************************************************************************)
(* Model of the real-time fan-out core of the citizen-safety backend:      *)
(*   - notifications/utils.py   ConnectionManager (topic -> connections)   *)
(*   - notifications/router.py  the /ws notification stream handler        *)
(*   - alerts/manager.py        trigger_alert, resolve_alert, the gateway  *)
(*   - alerts/router.py         the /ws/alerts stream handler              *)
(*                                                                         *)
(* The server is one asyncio event loop: a coroutine runs without          *)
(* interruption from one await to the next, so every action below is the   *)
(* code between two awaits of one coroutine.                               *)
(***************************************************************************)
EXTENDS Integers, Sequences, FiniteSets, TLC

(* ------------------------------------------------------------------ *)
(* Bounds of the model                                                  *)
(* ------------------------------------------------------------------ *)
\* number of websockets that ever open the notification stream
NConns == 3

\* "no connection": the value of a loop variable outside the loop
NoConn == 0

Conns == 1..NConns

\* notifications/utils.py topic_broadcast_all() and topic_for_user("u1")
Topics == {"broadcast:all", "user:u1"}

\* the event names passed to broadcast by the notify_* helpers
Events == {"incident.reported", "incident.updated"}

Range(s) == {s[i] : i \in DOMAIN s}

VARIABLES
    topic_to_connections,   \* ConnectionManager._topic_to_connections
    lock_locked,            \* ConnectionManager._lock is held
    ws_state,               \* per notification websocket: "new", "open", "closed"
    ws_topic,               \* the topic query parameter of each opened websocket
    bcast,                  \* the ConnectionManager.broadcast call in progress
    registry_access,        \* the last access to _topic_to_connections: which
                            \* operation, and whether it held _lock
    connected_alert_clients, \* alerts/manager.py: websocket -> {location, user_id}
    aws_state,              \* per alert-stream websocket: "new", "open", "closed"
    alerts,                 \* the rows of table alerts, in insertion order
    fcm_tokens,             \* users.fcm_token: the users whose token is not null
    now,                    \* the database clock read by NOW()
    trig,                   \* the trigger_alert call in progress, or the last one
    res,                    \* the response of the last resolve_alert call
    listed,                 \* the response of the last get_all_active_alerts call
    ws_user,                \* per notification websocket: the user whose valid
                            \* token it presented on /ws/me, or NoUser
    mcall,                  \* the last call of manager.connect for a websocket
                            \* that was already accepted, and how it ended
    bcast2,                 \* a second ConnectionManager.broadcast call, made
                            \* by another task while the first is in progress
    received,               \* the last text frame a /ws/alerts handler took
                            \* from receive_text, and its websocket
    incidents,              \* table incidents: id -> status
    rej,                    \* the reject_incident calls, each with its position
    val                     \* the response of the last validate_incident call

notifyVars ==
    <<topic_to_connections, lock_locked, ws_state, ws_topic, bcast, registry_access>>

alertVars ==
    <<connected_alert_clients, aws_state, alerts, fcm_tokens, now, trig, res, listed>>

callVars == <<ws_user, mcall, bcast2, received>>

incidentVars == <<incidents, rej, val>>

vars == <<topic_to_connections, lock_locked, ws_state, ws_topic, bcast, registry_access,
          connected_alert_clients, aws_state, alerts, fcm_tokens, now, trig, res, listed,
          ws_user, mcall, bcast2, received, incidents, rej, val>>

(* ------------------------------------------------------------------ *)
(* ConnectionManager                                                    *)
(* ------------------------------------------------------------------ *)

\* self._topic_to_connections.get(topic, set())
Subscribers(d, topic) == IF topic \in DOMAIN d THEN d[topic] ELSE {}

\* connect(): self._topic_to_connections.setdefault(topic, set()).add(websocket)
connect(d, websocket, topic) ==
    [t \in DOMAIN d \cup {topic} |->
        IF t = topic THEN Subscribers(d, topic) \cup {websocket} ELSE d[t]]

\* a disconnect without the membership test: it pops the topic
disconnect_pop_topic(d, websocket, topic) == [t \in DOMAIN d \ {topic} |-> d[t]]

\* disconnect(): remove the websocket; drop the topic entry when it empties
disconnect(d, websocket, topic) ==
    IF topic \in DOMAIN d /\ d[topic] # {} /\ websocket \in d[topic]
    THEN LET conns == d[topic] \ {websocket} IN
         IF conns = {}
         THEN [t \in DOMAIN d \ {topic} |-> d[t]]
         ELSE [d EXCEPT ![topic] = conns]
    ELSE d

\* a snapshot that is no copy: the loop would see the live set
Snapshot_live(d, topic, taken) == Subscribers(d, topic)

\* broadcast(): connections = list(self._topic_to_connections.get(topic, set()))
\* `taken` is the copy made when the call started; the loop iterates it
Snapshot(d, topic, taken) == taken

\* a manager whose methods never take the lock
LockHeld_never(op) == FALSE

\* which operations on _topic_to_connections run inside "async with self._lock":
\* connect and disconnect do, the copy made by broadcast does not
LockHeld(op) == op \in {"connect", "disconnect"}

Access(op) == [op |-> op, locked |-> LockHeld(op)]

NoAccess == [op |-> "none", locked |-> FALSE]

NoCall == [op |-> "none", ws |-> NoConn, topic |-> "", raised |-> FALSE]

IdleBcast ==
    [pc |-> "idle", topic |-> "broadcast:all", message |-> "incident.reported",
     at_start |-> {}, connections |-> {}, todo |-> {}, ws |-> NoConn, attempts |-> <<>>,
     delivered |-> {}, failed |-> {}, joined |-> {}, left |-> {}]

\* a broadcast that holds the lock from its snapshot to its return
LockedWhileSending_whole_loop(b) == b.pc = "send"

\* broadcast(): is self._lock held while "await ws.send_json(message)" is
\* pending: the loop stands in no "async with self._lock" block
LockedWhileSending(b) == FALSE

\* a loop that stops at the first failing send
AfterFailure_abort(b, d) == {}

\* broadcast(): the except clause only cleans up, the for loop goes on
AfterFailure(b, d) == (Snapshot(d, b.topic, b.connections) \ Range(b.attempts))

\* the connections the for loop has still to visit
Remaining(b, d) == Snapshot(d, b.topic, b.connections) \ Range(b.attempts)

\* the for loop moves to its next element and awaits ws.send_json(message),
\* or the loop is over and broadcast returns
NextSend(b, rest) ==
    IF rest = {}
    THEN {[b EXCEPT !.pc = "done", !.todo = {}, !.ws = NoConn]}
    ELSE {[b EXCEPT !.pc = "send", !.ws = c, !.todo = rest \ {c},
                    !.attempts = Append(b.attempts, c)] : c \in rest}

(* ------------------------------------------------------------------ *)
(* Actions of the notification stream                                   *)
(* ------------------------------------------------------------------ *)

\* ws_notifications: manager.connect(websocket, topic), topic from the query
WsConnect(c, topic) ==
    /\ ws_state[c] = "new"
    /\ ~lock_locked
    /\ topic_to_connections' = connect(topic_to_connections, c, topic)
    /\ ws_state' = [ws_state EXCEPT ![c] = "open"]
    /\ ws_topic' = [ws_topic EXCEPT ![c] = topic]
    /\ bcast' = IF bcast.pc = "send" /\ bcast.topic = topic
                THEN [bcast EXCEPT !.joined = @ \cup {c}] ELSE bcast
    /\ registry_access' = Access("connect")
    /\ UNCHANGED <<lock_locked, alertVars, callVars, incidentVars>>

\* ws_notifications: receive_text raises WebSocketDisconnect, the handler
\* calls manager.disconnect(websocket, topic) and ends
WsDisconnect(c) ==
    /\ ws_state[c] = "open"
    /\ ~lock_locked
    /\ topic_to_connections' = disconnect(topic_to_connections, c, ws_topic[c])
    /\ ws_state' = [ws_state EXCEPT ![c] = "closed"]
    /\ bcast' = IF bcast.pc = "send" /\ bcast.topic = ws_topic[c] /\ c \in bcast.todo
                THEN [bcast EXCEPT !.left = @ \cup {c}] ELSE bcast
    /\ registry_access' = Access("disconnect")
    /\ UNCHANGED <<lock_locked, ws_topic, alertVars, callVars, incidentVars>>

\* ws_notifications: receive_text raises something other than
\* WebSocketDisconnect (a binary frame makes it raise KeyError); no except
\* clause matches, the handler ends without calling manager.disconnect
WsReceiveRaises(c) ==
    /\ ws_state[c] = "open"
    /\ ws_state' = [ws_state EXCEPT ![c] = "closed"]
    /\ UNCHANGED <<topic_to_connections, lock_locked, ws_topic, bcast, registry_access,
                   alertVars, callVars, incidentVars>>

\* notify_user / notify_broadcast call manager.broadcast(topic, message):
\* the snapshot is taken and the first send is awaited
BroadcastStart(topic, message) ==
    /\ bcast.pc \in {"idle", "done"}
    /\ LET taken == Subscribers(topic_to_connections, topic)
           b0 == [IdleBcast EXCEPT !.topic = topic, !.message = message,
                                   !.at_start = taken, !.connections = taken]
       IN bcast' \in NextSend(b0, Remaining(b0, topic_to_connections))
    /\ lock_locked' = (LockedWhileSending(bcast') \/ LockedWhileSending(bcast2))
    /\ registry_access' = Access("snapshot")
    /\ UNCHANGED <<topic_to_connections, ws_state, ws_topic, alertVars, callVars,
                   incidentVars>>

\* the awaited send_json returns: the loop goes on to the next connection
BroadcastSendOk ==
    /\ bcast.pc = "send"
    /\ LET b1 == [bcast EXCEPT !.delivered = @ \cup {bcast.ws}]
       IN bcast' \in NextSend(b1, Remaining(b1, topic_to_connections))
    /\ lock_locked' = (LockedWhileSending(bcast') \/ LockedWhileSending(bcast2))
    /\ UNCHANGED <<topic_to_connections, ws_state, ws_topic,
                   registry_access, alertVars, callVars, incidentVars>>

\* the awaited send_json raises: await self.disconnect(ws, topic), then the
\* loop goes on to the next connection
BroadcastSendRaises ==
    /\ bcast.pc = "send"
    /\ ~lock_locked
    /\ LET d1 == disconnect(topic_to_connections, bcast.ws, bcast.topic)
           b1 == [bcast EXCEPT !.failed = @ \cup {bcast.ws}]
       IN /\ topic_to_connections' = d1
          /\ bcast' \in NextSend(b1, AfterFailure(b1, d1))
    /\ lock_locked' = (LockedWhileSending(bcast') \/ LockedWhileSending(bcast2))
    /\ registry_access' = Access("disconnect")
    /\ UNCHANGED <<ws_state, ws_topic, alertVars, callVars, incidentVars>>

\* another task calls manager.broadcast(topic, message) while the first call
\* may be in progress
OtherBroadcastStart(topic, message) ==
    /\ bcast2.pc \in {"idle", "done"}
    /\ LET taken == Subscribers(topic_to_connections, topic)
           b0 == [IdleBcast EXCEPT !.topic = topic, !.message = message,
                                   !.at_start = taken, !.connections = taken]
       IN bcast2' \in NextSend(b0, Remaining(b0, topic_to_connections))
    /\ lock_locked' = (LockedWhileSending(bcast) \/ LockedWhileSending(bcast2'))
    /\ registry_access' = Access("snapshot")
    /\ UNCHANGED <<topic_to_connections, ws_state, ws_topic, bcast, ws_user, mcall,
                   received, alertVars, incidentVars>>

\* the send awaited by the second call returns
OtherBroadcastSendOk ==
    /\ bcast2.pc = "send"
    /\ LET b1 == [bcast2 EXCEPT !.delivered = @ \cup {bcast2.ws}]
       IN bcast2' \in NextSend(b1, Remaining(b1, topic_to_connections))
    /\ lock_locked' = (LockedWhileSending(bcast) \/ LockedWhileSending(bcast2'))
    /\ UNCHANGED <<topic_to_connections, ws_state, ws_topic, bcast, registry_access,
                   ws_user, mcall, received, alertVars, incidentVars>>

\* the send awaited by the second call raises: await self.disconnect(ws, topic)
OtherBroadcastSendRaises ==
    /\ bcast2.pc = "send"
    /\ ~lock_locked
    /\ LET d1 == disconnect(topic_to_connections, bcast2.ws, bcast2.topic)
           b1 == [bcast2 EXCEPT !.failed = @ \cup {bcast2.ws}]
       IN /\ topic_to_connections' = d1
          /\ bcast2' \in NextSend(b1, AfterFailure(b1, d1))
    /\ lock_locked' = (LockedWhileSending(bcast) \/ LockedWhileSending(bcast2'))
    /\ registry_access' = Access("disconnect")
    /\ UNCHANGED <<ws_state, ws_topic, bcast, ws_user, mcall, received, alertVars,
                   incidentVars>>

\* the awaited send_json never completes (the peer stopped reading): the
\* call has no timeout, the coroutine of broadcast stays suspended in it
BroadcastSendStalls ==
    /\ bcast.pc = "send"
    /\ bcast' = [bcast EXCEPT !.pc = "stalled"]
    /\ UNCHANGED <<topic_to_connections, lock_locked, ws_state, ws_topic,
                   registry_access, alertVars, callVars, incidentVars>>

(* ------------------------------------------------------------------ *)
(* The alert stream: values                                             *)
(* ------------------------------------------------------------------ *)
\* number of websockets that ever open /ws/alerts
NAlertConns == 2

\* number of rows table alerts can hold, and the size of the pool uuid4 draws from
MaxAlerts == 2

\* the largest value of the database clock
MaxClock == 1

AlertConns == 1..NAlertConns

AlertIds == 1..MaxAlerts

\* a timestamp column that is NULL
NoTime == -1

\* haversine(): R = 6371, Earth radius in km
R == 6371

\* resolve_alert: cooldown_until = NOW() + INTERVAL '1 hour', in clock units
Hour == 3600

\* JSON values a client can put in "lat"/"lon", and the optional alert longitude:
\* a number, null/absent (None), or a string float() rejects
Num(x) == [kind |-> "num", v |-> x]

NoneVal == [kind |-> "none"]

BadStr == [kind |-> "str"]

\* connected_alert_clients[ws]["location"] = None
NoLocation == <<>>

\* connected_alert_clients[ws]["user_id"] = None
NoUser == "None"

\* the (lat, lon) pairs clients register: on the equator at longitude 0 and 1,
\* with a missing latitude, with a longitude that is no number
ClientLocations ==
    {<<Num(0), Num(0)>>, <<Num(0), Num(1)>>, <<NoneVal, Num(0)>>, <<Num(0), BadStr>>}

\* the authenticated users of the requests (get_current_user)
Users ==
    {[id |-> "es1", role |-> "emergency_service"],
     [id |-> "cit1", role |-> "citizen"],
     [id |-> "adm1", role |-> "admin"]}

\* the users that register a device token
FcmUsers == {"cit1"}

\* the AlertTrigger request bodies
Requests ==
    {[trigger_source |-> "manual", type |-> "natural disaster", message |-> "flood",
      location_lat |-> Num(0), location_lon |-> lon, radius_km |-> r,
      broadcast_type |-> bt] :
        <<bt, lon, r>> \in {<<"broadcast_all", Num(0), 111>>,
                            <<"broadcast_neighborhood", Num(0), 111>>,
                            <<"broadcast_neighborhood", NoneVal, 111>>}}

NoRequest == CHOOSE a \in Requests : TRUE

NoUserRec == CHOOSE u \in Users : TRUE

Abs(x) == IF x < 0 THEN -x ELSE x

(* ------------------------------------------------------------------ *)
(* The /ws/me stream and second subscriptions                           *)
(* ------------------------------------------------------------------ *)

\* websocket.accept() for a websocket in this state raises: the connection
\* was accepted before (or is closed), and only a connecting websocket may
\* send the accept message
accept_raises(state) == state # "new"

\* a caller subscribes the websocket of a running /ws handler to its topic
\* once more: manager.connect(websocket, topic) calls websocket.accept()
\* before it takes the lock; accept raises and the registry is not touched
ConnectAgain(c) ==
    /\ ws_state[c] = "open"
    /\ c \in Subscribers(topic_to_connections, ws_topic[c])
    /\ LET raised == accept_raises(ws_state[c]) IN
       /\ mcall' = [op |-> "connect", ws |-> c, topic |-> ws_topic[c], raised |-> raised]
       /\ topic_to_connections' =
             IF raised THEN topic_to_connections
             ELSE connect(topic_to_connections, c, ws_topic[c])
       /\ registry_access' = IF raised THEN registry_access ELSE Access("connect")
    /\ UNCHANGED <<lock_locked, ws_state, ws_topic, bcast, ws_user, bcast2, received,
                   alertVars, incidentVars>>

\* the first messages clients send on /ws/me
MeMessages ==
    {"oops", "{}", "{\"token\": \"bad\"}", "{\"token\": \"jwt-u1\"}"}

\* token_data = json.loads(first_message); token = token_data.get("token")
first_token(first_message) ==
    CASE first_message = "oops" -> [raises |-> TRUE, token |-> ""]
      [] first_message = "{}" -> [raises |-> FALSE, token |-> ""]
      [] first_message = "{\"token\": \"bad\"}" -> [raises |-> FALSE, token |-> "bad"]
      [] first_message = "{\"token\": \"jwt-u1\"}" -> [raises |-> FALSE, token |-> "jwt-u1"]

\* payload = decode_token(token); user_id = payload["sub"]: decode_token
\* returns None for a token it cannot verify, and the subscript raises
decode_token(token) ==
    IF token = "jwt-u1" THEN [raises |-> FALSE, sub |-> "u1"]
    ELSE [raises |-> TRUE, sub |-> NoUser]

\* ws_notifications_me: await websocket.accept(), then wait for the token
WsMeAccept(c) ==
    /\ ws_state[c] = "new"
    /\ ws_state' = [ws_state EXCEPT ![c] = "accepted"]
    /\ UNCHANGED <<topic_to_connections, lock_locked, ws_topic, bcast, registry_access,
                   callVars, alertVars, incidentVars>>

\* ws_notifications_me: the first message arrives. Without a token, or with
\* one decode_token rejects, the websocket is closed (4001). With a valid
\* token topic = topic_for_user(user_id) and manager.connect(websocket, topic)
\* is called: its websocket.accept() raises for the accepted websocket, the
\* except Exception clause calls manager.disconnect(websocket, topic) and
\* closes the websocket (4000)
WsMeFirstMessage(c, first_message) ==
    /\ ws_state[c] = "accepted"
    /\ ~lock_locked
    /\ LET first == first_token(first_message)
           payload == decode_token(first.token)
           valid == ~first.raises /\ first.token # "" /\ ~payload.raises
           topic == "user:" \o payload.sub
           raised == accept_raises(ws_state[c])
       IN /\ ws_user' = [ws_user EXCEPT ![c] = IF valid THEN payload.sub ELSE @]
          /\ ws_topic' = [ws_topic EXCEPT ![c] = IF valid THEN topic ELSE @]
          /\ mcall' = IF valid
                      THEN [op |-> "connect", ws |-> c, topic |-> topic, raised |-> raised]
                      ELSE mcall
          /\ topic_to_connections' =
                IF ~valid THEN topic_to_connections
                ELSE IF raised THEN disconnect(topic_to_connections, c, topic)
                ELSE connect(topic_to_connections, c, topic)
          /\ registry_access' =
                IF ~valid THEN registry_access
                ELSE IF raised THEN Access("disconnect") ELSE Access("connect")
          /\ ws_state' = [ws_state EXCEPT
                             ![c] = IF valid /\ ~raised THEN "open" ELSE "closed"]
    /\ UNCHANGED <<lock_locked, bcast, bcast2, received, alertVars, incidentVars>>

\* ws_notifications_me: receive_text raises WebSocketDisconnect before the
\* token came; topic is None, nothing to clean up
WsMeDisconnect(c) ==
    /\ ws_state[c] = "accepted"
    /\ ws_state' = [ws_state EXCEPT ![c] = "closed"]
    /\ UNCHANGED <<topic_to_connections, lock_locked, ws_topic, bcast, registry_access,
                   callVars, alertVars, incidentVars>>

(* ------------------------------------------------------------------ *)
(* alerts/manager.py: pure parts                                        *)
(* ------------------------------------------------------------------ *)

\* The central angle c of haversine(), in degrees, for two points on the
\* equator or on one meridian, where  a = sin^2(d/2)  and
\* c = 2*atan2(sqrt(a), sqrt(1-a))  is the angle d folded into [0, 180]
CentralAngle(lat1, lon1, lat2, lon2) ==
    LET d == IF lon1 = lon2 THEN Abs(lat2 - lat1) ELSE Abs(lon2 - lon1) % 360
    IN IF d > 180 THEN 360 - d ELSE d

\* haversine(): distance = R * c, here in whole metres (pi = 355/113)
haversine(lat1, lon1, lat2, lon2) ==
    LET n == R * CentralAngle(lat1, lon1, lat2, lon2) * 355
        q == 113 * 180
    IN (n \div q) * 1000 + ((n % q) * 1000) \div q

\* a selection that lets a client without usable location in
WithinRadius_default_in(alert, info) ==
    LET loc == info.location IN
    \/ loc = NoLocation
    \/ \E i \in 1..2 : loc[i].kind # "num"
    \/ /\ alert.location_lon.kind = "num"
       /\ haversine(alert.location_lat.v, alert.location_lon.v, loc[1].v, loc[2].v)
              <= alert.radius_km * 1000

\* trigger_alert, the body of the neighbourhood loop for one client:
\*   if loc and None not in loc: dist = haversine(..., float(loc[0]), float(loc[1]))
\*   if dist <= alert.radius_km: recipients.append(ws)
\* an exception of float() or haversine() skips the client
WithinRadius(alert, info) ==
    LET loc == info.location IN
    /\ loc # NoLocation
    /\ \A i \in 1..2 : loc[i].kind # "none"
    /\ \A i \in 1..2 : loc[i].kind = "num"
    /\ alert.location_lat.kind = "num" /\ alert.location_lon.kind = "num"
    /\ haversine(alert.location_lat.v, alert.location_lon.v, loc[1].v, loc[2].v)
           <= alert.radius_km * 1000

\* trigger_alert, neighbourhood loop: the try block raises for this client:
\* float() rejects a stored coordinate, or haversine() is given None
DistanceFails(alert, info) ==
    LET loc == info.location IN
    /\ loc # NoLocation
    /\ \A i \in 1..2 : loc[i].kind # "none"
    /\ \/ \E i \in 1..2 : loc[i].kind # "num"
       \/ alert.location_lat.kind # "num"
       \/ alert.location_lon.kind # "num"

\* a loop without the try: the exception reaches the outer except
AfterDistanceError_raise(t) ==
    [t EXCEPT !.pc = "done", !.status = 500, !.recipients = {}]

\* trigger_alert, neighbourhood loop: except Exception: logger.warning; continue
AfterDistanceError(t) == t

\* a selection that applies the radius to every broadcast type
Recipients_always_radius(alert, clients) ==
    {ws \in DOMAIN clients : WithinRadius(alert, clients[ws])}

\* trigger_alert "Determine recipients"
Recipients(alert, clients) ==
    IF alert.broadcast_type = "broadcast_all"
    THEN DOMAIN clients
    ELSE {ws \in DOMAIN clients : WithinRadius(alert, clients[ws])}

\* connected_alert_clients.pop(ws, None)
pop(clients, ws) == [w \in DOMAIN clients \ {ws} |-> clients[w]]

AlertRow(alert_id, alert, user, created_at) ==
    [id |-> alert_id, trigger_source |-> alert.trigger_source, type |-> alert.type,
     message |-> alert.message, location_lat |-> alert.location_lat,
     location_lon |-> alert.location_lon, radius_km |-> alert.radius_km,
     status |-> "ACTIVE", created_at |-> created_at, cooldown_until |-> NoTime,
     triggered_by |-> user.id]

AlertIdsOf(tbl) == {tbl[i].id : i \in DOMAIN tbl}

\* alert_id = str(uuid4()): an id some row already has, or a new one; ids are
\* opaque, so new ids are numbered in the order of their insertion
uuid4(tbl) == AlertIdsOf(tbl) \cup {Len(tbl) + 1}

\* a table without the primary key
InsertAccepted_no_pk(tbl, row) == TRUE

\* schema.py: id UUID PRIMARY KEY: the insert is refused when the id exists
InsertAccepted(tbl, row) == row.id \notin AlertIdsOf(tbl)

\* an update that parks the alert in COOLDOWN
ResolveRows_cooldown(tbl, alert_id, t) ==
    [i \in DOMAIN tbl |->
        IF tbl[i].id = alert_id
        THEN [tbl[i] EXCEPT !.status = "COOLDOWN", !.cooldown_until = t + Hour]
        ELSE tbl[i]]

\* an update without its WHERE clause
ResolveRows_all(tbl, alert_id, t) ==
    [i \in DOMAIN tbl |->
        [tbl[i] EXCEPT !.status = "RESOLVED", !.cooldown_until = t + Hour]]

\* UPDATE alerts SET status = 'RESOLVED', cooldown_until = NOW() + INTERVAL '1 hour'
\* WHERE id = $1
ResolveRows(tbl, alert_id, t) ==
    [i \in DOMAIN tbl |->
        IF tbl[i].id = alert_id
        THEN [tbl[i] EXCEPT !.status = "RESOLVED", !.cooldown_until = t + Hour]
        ELSE tbl[i]]

\* a resolve that never answers "not found"
Found_always(tbl, alert_id) == TRUE

\* resolve_alert: RETURNING id gave a row ("if not result" is false)
Found(tbl, alert_id) == alert_id \in AlertIdsOf(tbl)

\* get_alert_by_id: SELECT ... WHERE a.id = $1
get_alert_by_id(tbl, alert_id) ==
    LET rows == {i \in DOMAIN tbl : tbl[i].id = alert_id}
    IN IF rows = {} THEN [status |-> 404, data |-> {}]
       ELSE [status |-> 200, data |-> {tbl[i] : i \in rows}]

\* a listing without its WHERE clause
IsListed_all(row) == TRUE

\* get_all_active_alerts: WHERE status = 'ACTIVE'
IsListed(row) == row.status = "ACTIVE"

\* get_all_active_alerts: SELECT * FROM alerts WHERE status = 'ACTIVE'
\* ORDER BY created_at DESC: the possible result lists; rows with equal
\* created_at come in either order
get_all_active_alerts(tbl) ==
    LET sel == {i \in DOMAIN tbl : IsListed(tbl[i])}
        n == Cardinality(sel)
        orders == {f \in [1..n -> sel] :
                      /\ \A k, l \in 1..n : k # l => f[k] # f[l]
                      /\ \A k \in 1..n, l \in 1..n :
                            k < l => tbl[f[k]].created_at >= tbl[f[l]].created_at}
    IN {[k \in 1..n |-> tbl[f[k]]] : f \in orders}

NoList == [status |-> 0, data |-> <<>>]

\* a role check that lets every authenticated user through
Permitted_any(user) == TRUE

\* trigger_alert / resolve_alert: current_user['role'] != 'emergency_service' -> 403
Permitted(user) == user.role = "emergency_service"

\* a gateway that is called also with an empty token list
GatewayInvoked_always(tokens) == TRUE

\* send_push_sms_email_to_all: "if not tokens: return" before send_multicast
GatewayInvoked(tokens) == tokens # {}

IdleTrig ==
    [pc |-> "idle", alert |-> NoRequest, user |-> NoUserRec, status |-> 0,
     inserted |-> FALSE, alert_id |-> 0, created_at |-> NoTime,
     at_dispatch |-> {}, recipients |-> {}, ws |-> NoConn, attempts |-> <<>>,
     delivered |-> {}, failed |-> {}, tokens |-> {}, gateway |-> "none",
     gateway_calls |-> 0,
     response |-> [alert_id |-> 0, created_at |-> NoTime]]

NoRes == [status |-> 0, alert_id |-> 0, user |-> NoUserRec]

\* an exception of the gateway that reaches trigger_alert
AfterGatewayError_raise(t) == [t EXCEPT !.pc = "done", !.status = 500, !.ws = NoConn]

\* send_push_sms_email_to_all: except Exception: logger.error(...)
AfterGatewayError(t) == t

\* an except clause that undoes the insert
AfterDispatchError_rollback(tbl, alert_id) ==
    SelectSeq(tbl, LAMBDA r : r.id # alert_id)

\* trigger_alert: except Exception: return error_response(str(e), 500)
AfterDispatchError(tbl, alert_id) == tbl

\* a loop that goes back to the recipients whose send raised
Unsent_retry(t) == t.recipients \ t.delivered

\* trigger_alert: "for ws in recipients" visits each element of the list once
Unsent(t) == t.recipients \ Range(t.attempts)

\* the send loop of trigger_alert moves to its next recipient and awaits
\* ws.send_text, or is over and trigger_alert returns the success response
NextAlertSend(t) ==
    LET rest == Unsent(t) IN
    IF rest = {}
    THEN {[t EXCEPT !.pc = "done", !.ws = NoConn, !.status = 200,
                    !.response = [alert_id |-> t.alert_id, created_at |-> t.created_at]]}
    ELSE {[t EXCEPT !.pc = "send", !.ws = c, !.attempts = Append(t.attempts, c)] :
              c \in rest}

\* a trigger_alert that goes on to the dispatch after its insert raised
AfterInsertError_dispatch(alert, user, clients) ==
    NextAlertSend([IdleTrig EXCEPT !.alert = alert, !.user = user,
                                   !.at_dispatch = DOMAIN clients,
                                   !.recipients = DOMAIN clients])

\* trigger_alert: execute_query raises inside the try, nothing after it runs:
\* except Exception: return error_response(str(e), 500)
AfterInsertError(alert, user, clients) ==
    {[IdleTrig EXCEPT !.alert = alert, !.user = user, !.pc = "done", !.status = 500]}

\* an exception of a send that reaches the outer except of trigger_alert
SendFailureHandled_propagates(t) ==
    [t EXCEPT !.pc = "done", !.status = 500, !.ws = NoConn]

\* trigger_alert: the try/except around ws.send_text catches the exception
SendFailureHandled(t) == t

(* ------------------------------------------------------------------ *)
(* Actions of the alert stream handler (alerts/router.py)               *)
(* ------------------------------------------------------------------ *)

\* websocket_alerts: accept, then register the websocket without location
AlertWsConnect(c) ==
    /\ aws_state[c] = "new"
    /\ aws_state' = [aws_state EXCEPT ![c] = "open"]
    /\ connected_alert_clients' =
          [w \in DOMAIN connected_alert_clients \cup {c} |->
              IF w = c THEN [location |-> NoLocation, user_id |-> NoUser]
              ELSE connected_alert_clients[w]]
    /\ UNCHANGED <<notifyVars, callVars, incidentVars, listed, alerts, fcm_tokens, now, trig, res>>

\* websocket_alerts: a {"type": "register_location", lat, lon, user_id} frame;
\* for a websocket no longer in the dict the KeyError is caught and ignored
AlertWsRegisterLocation(c, loc, user_id) ==
    /\ aws_state[c] = "open"
    /\ connected_alert_clients' =
          IF c \in DOMAIN connected_alert_clients
          THEN [connected_alert_clients EXCEPT
                    ![c] = [location |-> loc, user_id |-> user_id]]
          ELSE connected_alert_clients
    /\ UNCHANGED <<notifyVars, callVars, incidentVars, listed, aws_state, alerts, fcm_tokens, now, trig, res>>

\* websocket_alerts: receive_text raises WebSocketDisconnect
AlertWsDisconnect(c) ==
    /\ aws_state[c] = "open"
    /\ aws_state' = [aws_state EXCEPT ![c] = "closed"]
    /\ connected_alert_clients' = pop(connected_alert_clients, c)
    /\ UNCHANGED <<notifyVars, callVars, incidentVars, listed, alerts, fcm_tokens, now, trig, res>>

\* websocket_alerts: receive_text raises something other than
\* WebSocketDisconnect; the inner try does not cover receive_text and the
\* outer except does not match, the handler ends without the pop
AlertWsReceiveRaises(c) ==
    /\ aws_state[c] = "open"
    /\ aws_state' = [aws_state EXCEPT ![c] = "closed"]
    /\ UNCHANGED <<notifyVars, callVars, incidentVars, listed, connected_alert_clients, alerts, fcm_tokens, now, trig, res>>

\* register_fcm_token: UPDATE users SET fcm_token = $1 WHERE id = $2
RegisterFcmToken(u) ==
    /\ fcm_tokens' = fcm_tokens \cup {u}
    /\ UNCHANGED <<notifyVars, callVars, incidentVars, listed, connected_alert_clients, aws_state, alerts, now, trig, res>>

\* the database clock advances
Tick ==
    /\ now < MaxClock
    /\ now' = now + 1
    /\ UNCHANGED <<notifyVars, callVars, incidentVars, listed, connected_alert_clients, aws_state, alerts, fcm_tokens,
                   trig, res>>

\* the text frames clients send on /ws/alerts
Frames ==
    {"oops",
     "[0, 0]",
     "{\"type\": \"ping\"}",
     "{\"type\": \"register_location\"}",
     "{\"type\": \"register_location\", \"lat\": \"north\", \"lon\": 0, \"user_id\": \"cit1\"}",
     "{\"type\": \"register_location\", \"lat\": 0, \"lon\": 0, \"user_id\": \"cit1\"}"}

\* the frames that register a location
LocationFrames ==
    {"{\"type\": \"register_location\"}",
     "{\"type\": \"register_location\", \"lat\": 0, \"lon\": 0, \"user_id\": \"cit1\"}"}

Parsed(raises, is_dict, type, lat, lon, user_id) ==
    [raises |-> raises, is_dict |-> is_dict, type |-> type, lat |-> lat, lon |-> lon,
     user_id |-> user_id]

\* msg = json.loads(data) with what msg.get("type"), msg.get("lat"),
\* msg.get("lon") and msg.get("user_id") return (None for an absent key)
json_loads(data) ==
    CASE data = "oops" ->
            Parsed(TRUE, FALSE, "None", NoneVal, NoneVal, NoUser)
      [] data = "[0, 0]" ->
            Parsed(FALSE, FALSE, "None", NoneVal, NoneVal, NoUser)
      [] data = "{\"type\": \"ping\"}" ->
            Parsed(FALSE, TRUE, "ping", NoneVal, NoneVal, NoUser)
      [] data = "{\"type\": \"register_location\"}" ->
            Parsed(FALSE, TRUE, "register_location", NoneVal, NoneVal, NoUser)
      [] data = "{\"type\": \"register_location\", \"lat\": \"north\", \"lon\": 0, \"user_id\": \"cit1\"}" ->
            Parsed(FALSE, TRUE, "register_location", BadStr, Num(0), "cit1")
      [] data = "{\"type\": \"register_location\", \"lat\": 0, \"lon\": 0, \"user_id\": \"cit1\"}" ->
            Parsed(FALSE, TRUE, "register_location", Num(0), Num(0), "cit1")

NoFrame == [ws |-> NoConn, data |-> "", seq |-> 0, known |-> FALSE]

\* an except clause that ends the handler
AfterMalformed_close(state) == "closed"

\* websocket_alerts: except Exception: logger.warning(...); pass, and the
\* while loop goes back to receive_text
AfterMalformed(state) == state

\* websocket_alerts, one turn of the loop: receive_text returns a text frame;
\* json.loads, msg.get (AttributeError when msg is no dict) and the two
\* assignments (KeyError when the websocket is not in the dict) are in one try
AlertWsReceiveText(c, data) ==
    /\ aws_state[c] = "open"
    /\ LET msg == json_loads(data)
           known == c \in DOMAIN connected_alert_clients
           raised == \/ msg.raises
                     \/ ~msg.is_dict
                     \/ msg.type = "register_location" /\ ~known
       IN /\ connected_alert_clients' =
                IF ~raised /\ msg.type = "register_location"
                THEN [connected_alert_clients EXCEPT
                         ![c] = [location |-> <<msg.lat, msg.lon>>,
                                 user_id |-> msg.user_id]]
                ELSE connected_alert_clients
          /\ aws_state' = [aws_state EXCEPT
                              ![c] = IF raised THEN AfterMalformed(@) ELSE @]
          /\ received' = [ws |-> c, data |-> data, seq |-> 1 - received.seq,
                          known |-> known]
    /\ UNCHANGED <<notifyVars, ws_user, mcall, bcast2, incidentVars, listed, alerts,
                   fcm_tokens, now, trig, res>>

(* ------------------------------------------------------------------ *)
(* trigger_alert                                                        *)
(* ------------------------------------------------------------------ *)

NewTrig(alert, user) == [IdleTrig EXCEPT !.alert = alert, !.user = user]

\* the role check fails: error_response("Permission denied", 403)
TriggerDenied(alert, user) ==
    /\ trig.pc \in {"idle", "done"}
    /\ ~Permitted(user)
    /\ trig' = [NewTrig(alert, user) EXCEPT !.pc = "done", !.status = 403]
    /\ UNCHANGED <<notifyVars, callVars, incidentVars, listed, connected_alert_clients, aws_state, alerts, fcm_tokens,
                   now, res>>

\* the INSERT raises (database unavailable, or the row is refused):
\* error_response(str(e), 500)
TriggerInsertRaises(alert, user) ==
    /\ trig.pc \in {"idle", "done"}
    /\ Permitted(user)
    /\ trig' \in AfterInsertError(alert, user, connected_alert_clients)
    /\ UNCHANGED <<notifyVars, callVars, incidentVars, listed, connected_alert_clients, aws_state, alerts, fcm_tokens,
                   now, res>>

\* the INSERT ... RETURNING id, created_at with alert_id = str(uuid4()) returns
\* (or is refused by the primary key); the recipients are determined; for
\* broadcast_all the coroutine then awaits get_all_fcm_tokens, else it starts
\* the send loop
TriggerInsert(alert, user, alert_id) ==
    /\ trig.pc \in {"idle", "done"}
    /\ Permitted(user)
    /\ Len(alerts) < MaxAlerts
    /\ LET row == AlertRow(alert_id, alert, user, now)
           t1 == [NewTrig(alert, user) EXCEPT
                     !.inserted = TRUE, !.alert_id = row.id,
                     !.created_at = row.created_at,
                     !.at_dispatch = DOMAIN connected_alert_clients,
                     !.recipients = Recipients(alert, connected_alert_clients)]
           t2 == IF /\ alert.broadcast_type # "broadcast_all"
                    /\ \E ws \in DOMAIN connected_alert_clients :
                          DistanceFails(alert, connected_alert_clients[ws])
                 THEN AfterDistanceError(t1) ELSE t1
       IN IF InsertAccepted(alerts, row)
          THEN /\ alerts' = Append(alerts, row)
               /\ IF alert.broadcast_type = "broadcast_all"
                  THEN trig' = [t1 EXCEPT !.pc = "tokens"]
                  ELSE trig' \in (IF t2.pc = "done" THEN {t2} ELSE NextAlertSend(t2))
          ELSE /\ alerts' = alerts
               /\ trig' \in AfterInsertError(alert, user, connected_alert_clients)
    /\ UNCHANGED <<notifyVars, callVars, incidentVars, listed, connected_alert_clients, aws_state, fcm_tokens, now, res>>

\* send_push_sms_email_to_all: get_all_fcm_tokens raises; the exception reaches
\* the except clause of trigger_alert: error_response(str(e), 500)
TriggerTokensRaise ==
    /\ trig.pc = "tokens"
    /\ trig' = [trig EXCEPT !.pc = "done", !.status = 500, !.gateway = "tokens_error"]
    /\ alerts' = AfterDispatchError(alerts, trig.alert_id)
    /\ UNCHANGED <<notifyVars, callVars, incidentVars, listed, connected_alert_clients, aws_state, fcm_tokens, now, res>>

\* send_push_sms_email_to_all: the tokens are fetched; without tokens it
\* returns, else messaging.send_multicast is called and returns or raises;
\* then the send loop starts
TriggerTokensFetched(gateway_ok) ==
    /\ trig.pc = "tokens"
    /\ LET t0 == [trig EXCEPT !.tokens = fcm_tokens]
           t1 == IF GatewayInvoked(t0.tokens)
                 THEN [t0 EXCEPT !.gateway_calls = @ + 1,
                                 !.gateway = IF gateway_ok THEN "sent" ELSE "failed"]
                 ELSE [t0 EXCEPT !.gateway = "no_tokens"]
           t2 == IF t1.gateway = "failed" THEN AfterGatewayError(t1) ELSE t1
       IN trig' \in (IF t2.pc = "done" THEN {t2} ELSE NextAlertSend(t2))
    /\ UNCHANGED <<notifyVars, callVars, incidentVars, listed, connected_alert_clients, aws_state, alerts, fcm_tokens,
                   now, res>>

\* the awaited ws.send_text returns
TriggerSendOk ==
    /\ trig.pc = "send"
    /\ trig' \in NextAlertSend([trig EXCEPT !.delivered = @ \cup {trig.ws}])
    /\ UNCHANGED <<notifyVars, callVars, incidentVars, listed, connected_alert_clients, aws_state, alerts, fcm_tokens,
                   now, res>>

\* the send raises: connected_alert_clients.pop(ws, None), the loop goes on
TriggerSendRaises ==
    /\ trig.pc = "send"
    /\ LET t1 == SendFailureHandled([trig EXCEPT !.failed = @ \cup {trig.ws}])
       IN trig' \in (IF t1.pc = "done" THEN {t1} ELSE NextAlertSend(t1))
    /\ connected_alert_clients' = pop(connected_alert_clients, trig.ws)
    /\ UNCHANGED <<notifyVars, callVars, incidentVars, listed, aws_state, alerts, fcm_tokens, now, res>>

(* ------------------------------------------------------------------ *)
(* resolve_alert                                                        *)
(* ------------------------------------------------------------------ *)

\* the role check fails: error_response("Permission denied", 403)
ResolveDenied(alert_id, user) ==
    /\ ~Permitted(user)
    /\ res' = [status |-> 403, alert_id |-> 0, user |-> user]
    /\ UNCHANGED <<notifyVars, callVars, incidentVars, listed, connected_alert_clients, aws_state, alerts, fcm_tokens,
                   now, trig>>

\* the UPDATE raises: error_response(str(e), 500)
ResolveRaises(alert_id, user) ==
    /\ Permitted(user)
    /\ res' = [status |-> 500, alert_id |-> 0, user |-> user]
    /\ UNCHANGED <<notifyVars, callVars, incidentVars, listed, connected_alert_clients, aws_state, alerts, fcm_tokens,
                   now, trig>>

\* the UPDATE ... RETURNING id returns: no row -> 404, else the row is resolved
ResolveUpdate(alert_id, user) ==
    /\ Permitted(user)
    /\ alerts' = ResolveRows(alerts, alert_id, now)
    /\ res' = [status |-> IF Found(alerts, alert_id) THEN 200 ELSE 404,
               alert_id |-> alert_id, user |-> user]
    /\ UNCHANGED <<notifyVars, callVars, incidentVars, listed, connected_alert_clients, aws_state, fcm_tokens, now, trig>>

(* ------------------------------------------------------------------ *)
(* get_all_active_alerts                                                *)
(* ------------------------------------------------------------------ *)

\* the query returns: success_response(alerts, ...)
ListActive ==
    /\ listed' \in {[status |-> 200, data |-> q] : q \in get_all_active_alerts(alerts)}
    /\ UNCHANGED <<notifyVars, callVars, incidentVars, connected_alert_clients, aws_state, alerts, fcm_tokens,
                   now, trig, res>>

\* the query raises: error_response(str(e), 500)
ListActiveRaises ==
    /\ listed' = [status |-> 500, data |-> <<>>]
    /\ UNCHANGED <<notifyVars, callVars, incidentVars, connected_alert_clients, aws_state, alerts, fcm_tokens,
                   now, trig, res>>

(* ------------------------------------------------------------------ *)
(* incidents/manager.py: validate_incident and reject_incident          *)
(* ------------------------------------------------------------------ *)
\* number of rows of table incidents
NIncidents == 1

\* number of reject_incident calls that can be in progress together
NRejects == 2

IncidentIds == 1..NIncidents

\* the ids the requests name: those of the rows and one no row has
RequestIds == 1..(NIncidents + 1)

RejectCalls == 1..NRejects

\* IncidentValidate.status: any string; the CHECK constraint of the column
\* accepts the first four
ValidationStatuses == {"PENDING", "VALIDATED", "REJECTED", "ACTION_TAKEN", "bogus"}

\* schema.py: CHECK (status IN ('PENDING', 'VALIDATED', 'REJECTED', 'ACTION_TAKEN'))
StatusAccepted(status) == status \in {"PENDING", "VALIDATED", "REJECTED", "ACTION_TAKEN"}

\* validate_incident, reject_incident: the roles let through
MayValidate(user) == user.role \in {"emergency_service", "admin"}

IdleRej ==
    [pc |-> "idle", incident_id |-> 0, user |-> NoUserRec, seen |-> "None",
     before |-> "None", status |-> 0]

NoVal == [status |-> 0, incident_id |-> 0, user |-> NoUserRec]

\* reject_incident: the role check fails: error_response("Permission denied", 403)
RejectDenied(k, incident_id, user) ==
    /\ rej[k].pc \in {"idle", "done"}
    /\ ~MayValidate(user)
    /\ rej' = [rej EXCEPT ![k] = [IdleRej EXCEPT !.pc = "done", !.status = 403,
                                                !.incident_id = incident_id,
                                                !.user = user]]
    /\ UNCHANGED <<notifyVars, alertVars, callVars, incidents, val>>

\* reject_incident: SELECT status FROM incidents WHERE id = $1 returns:
\* no row -> 404, a status other than PENDING -> 400, else the coroutine
\* goes on to await the UPDATE
RejectSelect(k, incident_id, user) ==
    /\ rej[k].pc \in {"idle", "done"}
    /\ MayValidate(user)
    /\ LET r0 == [IdleRej EXCEPT !.incident_id = incident_id, !.user = user]
       IN rej' = [rej EXCEPT ![k] =
             IF incident_id \notin DOMAIN incidents
             THEN [r0 EXCEPT !.pc = "done", !.status = 404]
             ELSE IF incidents[incident_id].status # "PENDING"
             THEN [r0 EXCEPT !.pc = "done", !.status = 400,
                             !.seen = incidents[incident_id].status]
             ELSE [r0 EXCEPT !.pc = "update", !.seen = "PENDING"]]
    /\ UNCHANGED <<notifyVars, alertVars, callVars, incidents, val>>

\* reject_incident: the SELECT raises: error_response(str(e), 500)
RejectSelectRaises(k, incident_id, user) ==
    /\ rej[k].pc \in {"idle", "done"}
    /\ MayValidate(user)
    /\ rej' = [rej EXCEPT ![k] = [IdleRej EXCEPT !.pc = "done", !.status = 500,
                                                !.incident_id = incident_id,
                                                !.user = user]]
    /\ UNCHANGED <<notifyVars, alertVars, callVars, incidents, val>>

\* reject_incident: UPDATE incidents SET status = 'REJECTED',
\* rejection_reason = $2, validated_at = NOW() WHERE id = $1 RETURNING ...
\* returns; the notification that follows changes nothing and its errors are
\* caught; success_response
RejectUpdate(k) ==
    /\ rej[k].pc = "update"
    /\ LET id == rej[k].incident_id IN
       /\ incidents' = [incidents EXCEPT ![id] =
                            [status |-> "REJECTED", rejection_reason |-> "spam"]]
       /\ rej' = [rej EXCEPT ![k] = [@ EXCEPT !.pc = "done", !.status = 200,
                                              !.before = incidents[id].status]]
    /\ UNCHANGED <<notifyVars, alertVars, callVars, val>>

\* reject_incident: the UPDATE raises: error_response(str(e), 500)
RejectUpdateRaises(k) ==
    /\ rej[k].pc = "update"
    /\ rej' = [rej EXCEPT ![k] = [@ EXCEPT !.pc = "done", !.status = 500]]
    /\ UNCHANGED <<notifyVars, alertVars, callVars, incidents, val>>

\* validate_incident: the role check fails: error_response("Unauthorized", 403)
ValidateDenied(incident_id, status, user) ==
    /\ ~MayValidate(user)
    /\ val' = [status |-> 403, incident_id |-> incident_id, user |-> user]
    /\ UNCHANGED <<notifyVars, alertVars, callVars, incidents, rej>>

\* validate_incident: UPDATE incidents SET status = $1, validated_at = $2,
\* rejection_reason = $3 WHERE id = $4 RETURNING id raises (the CHECK
\* constraint refuses the status, or the database fails): 500
ValidateRaises(incident_id, status, user) ==
    /\ MayValidate(user)
    /\ val' = [status |-> 500, incident_id |-> incident_id, user |-> user]
    /\ UNCHANGED <<notifyVars, alertVars, callVars, incidents, rej>>

\* validate_incident: the UPDATE returns: no row -> 404; else the row has
\* the new status, notify_broadcast("incident.updated", ...) is called and
\* the success response returned
ValidateUpdate(incident_id, status, user) ==
    /\ MayValidate(user)
    /\ StatusAccepted(status)
    /\ bcast.pc \in {"idle", "done"}
    /\ IF incident_id \notin DOMAIN incidents
       THEN /\ val' = [status |-> 404, incident_id |-> incident_id, user |-> user]
            /\ UNCHANGED <<incidents, bcast, lock_locked, registry_access>>
       ELSE /\ incidents' = [incidents EXCEPT ![incident_id] =
                                [status |-> status, rejection_reason |-> "None"]]
            /\ val' = [status |-> 200, incident_id |-> incident_id, user |-> user]
            /\ LET taken == Subscribers(topic_to_connections, "broadcast:all")
                   b0 == [IdleBcast EXCEPT !.topic = "broadcast:all",
                                           !.message = "incident.updated",
                                           !.at_start = taken, !.connections = taken]
               IN bcast' \in NextSend(b0, Remaining(b0, topic_to_connections))
            /\ lock_locked' = (LockedWhileSending(bcast') \/ LockedWhileSending(bcast2))
            /\ registry_access' = Access("snapshot")
    /\ UNCHANGED <<topic_to_connections, ws_state, ws_topic, alertVars, callVars, rej>>

\* the incidents have been reported and wait for a decision
ReportedInit ==
    /\ incidents = [i \in IncidentIds |->
                       [status |-> "PENDING", rejection_reason |-> "None"]]
    /\ rej = [k \in RejectCalls |-> IdleRej]
    /\ val = NoVal

\* concurrent validate_incident and reject_incident requests
IncidentNext ==
    \/ \E k \in RejectCalls, incident_id \in RequestIds, user \in Users :
          RejectDenied(k, incident_id, user)
    \/ \E k \in RejectCalls, incident_id \in RequestIds, user \in Users :
          RejectSelect(k, incident_id, user)
    \/ \E k \in RejectCalls, incident_id \in RequestIds, user \in Users :
          RejectSelectRaises(k, incident_id, user)
    \/ \E k \in RejectCalls : RejectUpdate(k)
    \/ \E k \in RejectCalls : RejectUpdateRaises(k)
    \/ \E incident_id \in RequestIds, status \in ValidationStatuses, user \in Users :
          ValidateDenied(incident_id, status, user)
    \/ \E incident_id \in RequestIds, status \in ValidationStatuses, user \in Users :
          ValidateRaises(incident_id, status, user)
    \/ \E incident_id \in RequestIds, status \in ValidationStatuses, user \in Users :
          ValidateUpdate(incident_id, status, user)

AlertInit ==
    /\ connected_alert_clients = <<>>
    /\ aws_state = [c \in AlertConns |-> "new"]
    /\ alerts = <<>>
    /\ fcm_tokens = {}
    /\ now = 0
    /\ trig = IdleTrig
    /\ res = NoRes
    /\ listed = NoList
    /\ received = NoFrame

\* the alert stream and the dispatch of trigger_alert
AlertNext ==
    \/ \E c \in AlertConns : AlertWsConnect(c)
    \/ \E c \in AlertConns, loc \in ClientLocations :
          AlertWsRegisterLocation(c, loc, "cit1")
    \/ \E c \in AlertConns : AlertWsDisconnect(c)
    \/ \E u \in FcmUsers : RegisterFcmToken(u)
    \/ \E alert \in Requests, user \in Users : TriggerDenied(alert, user)
    \/ \E alert \in Requests, user \in Users : TriggerInsertRaises(alert, user)
    \/ \E alert \in Requests, user \in Users, alert_id \in uuid4(alerts) :
          TriggerInsert(alert, user, alert_id)
    \/ TriggerTokensRaise
    \/ \E gateway_ok \in BOOLEAN : TriggerTokensFetched(gateway_ok)
    \/ TriggerSendOk
    \/ TriggerSendRaises

\* the process when the requests of the life cycle arrive: websocket 1 has
\* opened the alert stream and sent no location, user cit1 has registered a
\* device token
LifecycleInit ==
    /\ connected_alert_clients =
          [w \in {1} |-> [location |-> NoLocation, user_id |-> NoUser]]
    /\ aws_state = [c \in AlertConns |-> IF c = 1 THEN "open" ELSE "new"]
    /\ alerts = <<>>
    /\ fcm_tokens = FcmUsers
    /\ now = 0
    /\ trig = IdleTrig
    /\ res = NoRes
    /\ listed = NoList
    /\ received = NoFrame

\* trigger_alert and resolve_alert over the table, with the clock
LifecycleNext ==
    \/ Tick
    \/ \E alert \in Requests, user \in Users : TriggerDenied(alert, user)
    \/ \E alert \in Requests, user \in Users : TriggerInsertRaises(alert, user)
    \/ \E alert \in Requests, user \in Users, alert_id \in uuid4(alerts) :
          TriggerInsert(alert, user, alert_id)
    \/ TriggerTokensRaise
    \/ \E gateway_ok \in BOOLEAN : TriggerTokensFetched(gateway_ok)
    \/ TriggerSendOk
    \/ TriggerSendRaises
    \/ \E alert_id \in AlertIds, user \in Users : ResolveDenied(alert_id, user)
    \/ \E alert_id \in AlertIds, user \in Users : ResolveRaises(alert_id, user)
    \/ \E alert_id \in AlertIds, user \in Users : ResolveUpdate(alert_id, user)

NotifyInit ==
    /\ topic_to_connections = <<>>
    /\ lock_locked = FALSE
    /\ ws_state = [c \in Conns |-> "new"]
    /\ ws_topic = [c \in Conns |-> "broadcast:all"]
    /\ bcast = IdleBcast
    /\ registry_access = NoAccess
    /\ ws_user = [c \in Conns |-> NoUser]
    /\ mcall = NoCall
    /\ bcast2 = IdleBcast

\* no incident reported, no call made
IncidentInit ==
    /\ incidents = <<>>
    /\ rej = <<>>
    /\ val = NoVal

NotifyNext ==
    \/ \E c \in Conns, topic \in Topics : WsConnect(c, topic)
    \/ \E c \in Conns : WsDisconnect(c)
    \/ \E topic \in Topics, message \in Events : BroadcastStart(topic, message)
    \/ BroadcastSendOk
    \/ BroadcastSendRaises

\* the notification streams /ws and /ws/me with the broadcasts of
\* notify_user and notify_broadcast
MeNext ==
    \/ \E c \in Conns, topic \in Topics : WsConnect(c, topic)
    \/ \E c \in Conns : WsDisconnect(c)
    \/ \E c \in Conns : ConnectAgain(c)
    \/ \E c \in Conns : WsMeAccept(c)
    \/ \E c \in Conns, first_message \in MeMessages : WsMeFirstMessage(c, first_message)
    \/ \E c \in Conns : WsMeDisconnect(c)
    \/ \E topic \in Topics, message \in Events : BroadcastStart(topic, message)
    \/ BroadcastSendOk
    \/ BroadcastSendRaises

\* the two stream handlers, from accept to the end of the handler
HandlersNext ==
    \/ \E c \in Conns, topic \in Topics : WsConnect(c, topic)
    \/ \E c \in Conns : WsDisconnect(c)
    \/ \E c \in Conns : WsReceiveRaises(c)
    \/ \E c \in AlertConns : AlertWsConnect(c)
    \/ \E c \in AlertConns, loc \in ClientLocations :
          AlertWsRegisterLocation(c, loc, "cit1")
    \/ \E c \in AlertConns : AlertWsDisconnect(c)
    \/ \E c \in AlertConns : AlertWsReceiveRaises(c)

\* the notification stream with sends that return, raise or never complete
StallNext ==
    \/ \E c \in Conns, topic \in Topics : WsConnect(c, topic)
    \/ \E c \in Conns : WsDisconnect(c)
    \/ \E topic \in Topics, message \in Events : BroadcastStart(topic, message)
    \/ BroadcastSendOk
    \/ BroadcastSendRaises
    \/ BroadcastSendStalls

\* number of websockets that open /ws while two tasks broadcast
NReturnConns == 2

ReturnConns == 1..NReturnConns

\* two tasks broadcasting to one topic while connections come and go
ReturnNext ==
    \/ \E c \in ReturnConns : WsConnect(c, "broadcast:all")
    \/ \E c \in ReturnConns : WsDisconnect(c)
    \/ BroadcastStart("broadcast:all", "incident.reported")
    \/ BroadcastSendOk
    \/ BroadcastSendRaises
    \/ OtherBroadcastStart("broadcast:all", "incident.updated")
    \/ OtherBroadcastSendOk
    \/ OtherBroadcastSendRaises

\* every awaited send of either call returns or raises
SendReturns == BroadcastSendOk \/ BroadcastSendRaises

OtherSendReturns == OtherBroadcastSendOk \/ OtherBroadcastSendRaises

\* every awaited send comes to one of its three ends
SendResolves == BroadcastSendOk \/ BroadcastSendRaises \/ BroadcastSendStalls

\* the alert stream handler with the frames clients send
FramesNext ==
    \/ \E c \in AlertConns : AlertWsConnect(c)
    \/ \E c \in AlertConns, data \in Frames : AlertWsReceiveText(c, data)
    \/ \E c \in AlertConns : AlertWsDisconnect(c)
    \/ \E c \in AlertConns : AlertWsReceiveRaises(c)

\* the alert stream handler receiving register_location frames while
\* trigger_alert sends and removes the recipients whose send raised
GoneNext ==
    \/ \E c \in AlertConns : AlertWsConnect(c)
    \/ \E c \in AlertConns, data \in LocationFrames : AlertWsReceiveText(c, data)
    \/ \E c \in AlertConns : AlertWsDisconnect(c)
    \/ \E alert \in Requests, user \in Users, alert_id \in uuid4(alerts) :
          TriggerInsert(alert, user, alert_id)
    \/ TriggerTokensRaise
    \/ \E gateway_ok \in BOOLEAN : TriggerTokensFetched(gateway_ok)
    \/ TriggerSendOk
    \/ TriggerSendRaises

\* the table under trigger_alert, resolve_alert and get_all_active_alerts,
\* with nobody connected to the alert stream
ReadNext ==
    \/ Tick
    \/ \E alert \in Requests, user \in Users, alert_id \in uuid4(alerts) :
          TriggerInsert(alert, user, alert_id)
    \/ TriggerTokensRaise
    \/ \E gateway_ok \in BOOLEAN : TriggerTokensFetched(gateway_ok)
    \/ \E alert_id \in AlertIds, user \in Users : ResolveUpdate(alert_id, user)
    \/ ListActive
    \/ ListActiveRaises

\* the process after import: nothing connected, empty tables
Init == NotifyInit /\ AlertInit /\ IncidentInit

InitLifecycle == NotifyInit /\ LifecycleInit /\ IncidentInit

InitReported == NotifyInit /\ AlertInit /\ ReportedInit

SpecNotify == Init /\ [][NotifyNext]_vars

SpecAlert == Init /\ [][AlertNext]_vars

SpecLifecycle == InitLifecycle /\ [][LifecycleNext]_vars

SpecRead == Init /\ [][ReadNext]_vars

SpecHandlers == Init /\ [][HandlersNext]_vars

SpecFrames == Init /\ [][FramesNext]_vars

SpecMe == Init /\ [][MeNext]_vars

SpecReturn ==
    Init /\ [][ReturnNext]_vars /\ WF_vars(SendReturns) /\ WF_vars(OtherSendReturns)

SpecGone == Init /\ [][GoneNext]_vars

SpecIncident == InitReported /\ [][IncidentNext]_vars

SpecStall == Init /\ [][StallNext]_vars /\ WF_vars(SendResolves)

(* ------------------------------------------------------------------ *)
(* Claims about ConnectionManager.broadcast                             *)
(* ------------------------------------------------------------------ *)

\* C1: when broadcast has returned, every connection subscribed when the call
\* started whose own send did not raise has been sent the message, although
\* other sends raised; and from the moment a send has raised, the failing
\* connection is not in the topic's subscriber set
C1_FailureIsolated ==
    /\ bcast.pc = "done" => (bcast.at_start \ bcast.failed) \subseteq bcast.delivered
    /\ bcast.pc \in {"send", "done"} =>
          bcast.failed \cap Subscribers(topic_to_connections, bcast.topic) = {}

\* a broadcast to three subscribers has returned; a send raised and a later
\* send of the same call was delivered
C1_Witness ==
    /\ bcast.pc = "done"
    /\ Cardinality(bcast.at_start) >= 3
    /\ \E i, j \in DOMAIN bcast.attempts :
          i < j /\ bcast.attempts[i] \in bcast.failed
                /\ bcast.attempts[j] \in bcast.delivered

\* C3: a broadcast attempts a send to connections subscribed when the call
\* started only and, once it has returned, to every one of them exactly once:
\* a connection subscribed meanwhile is not sent the message, one
\* unsubscribed meanwhile still is
C3_SnapshotAtCall ==
    bcast.pc \in {"send", "done"} =>
        /\ Range(bcast.attempts) \subseteq bcast.at_start
        /\ bcast.joined \cap Range(bcast.attempts) = {}
        /\ Len(bcast.attempts) = Cardinality(Range(bcast.attempts))
        /\ bcast.pc = "done" =>
              /\ Range(bcast.attempts) = bcast.at_start
              /\ bcast.left \subseteq Range(bcast.attempts)

\* a broadcast has returned during which one connection subscribed to the
\* topic and another, not yet visited, was unsubscribed by its handler
C3_Witness ==
    /\ bcast.pc = "done"
    /\ bcast.joined # {}
    /\ bcast.left # {}

C14_Original ==
    \A c \in Conns :
        (bcast.pc = "stalled" /\ c \in bcast.connections)
            ~> (c \in Range(bcast.attempts))

\* C24: a call of disconnect, by the handler of a closing /ws connection or by
\* broadcast for a recipient whose send raised, completes and leaves the
\* connection out of the topic and every other member and topic as they
\* were; for a connection that is no member (a second call for the pair
\* included) it leaves the registry unchanged
C24_UnsubscribeIdempotent ==
    [][\A c \in Conns :
          LET handler == ws_state[c] = "open" /\ ws_state'[c] = "closed"
              cleanup == bcast.pc = "send" /\ bcast.ws = c /\ c \in bcast'.failed
              topic == IF handler THEN ws_topic[c] ELSE bcast.topic
          IN (handler \/ cleanup) =>
                /\ c \notin Subscribers(topic_to_connections', topic)
                /\ \A t \in Topics :
                      Subscribers(topic_to_connections', t) =
                         Subscribers(topic_to_connections, t)
                            \ (IF t = topic THEN {c} ELSE {})
                /\ \A t \in DOMAIN topic_to_connections' :
                      topic_to_connections'[t] # {}
                /\ c \notin Subscribers(topic_to_connections, topic) =>
                      topic_to_connections' = topic_to_connections
                /\ cleanup => bcast'.pc \in {"send", "done"}]_vars

\* a broadcast has returned after it called disconnect for a recipient whose
\* handler had called disconnect for the same topic before, while another
\* connection stays subscribed to that topic
C24_Witness ==
    /\ bcast.pc = "done"
    /\ bcast.failed \cap bcast.left # {}
    /\ Subscribers(topic_to_connections, bcast.topic) # {}

\* C26: while a send of a broadcast is pending or stalled, the lock is free
\* and the subscribe of any connecting websocket and the unsubscribe of any
\* open one can complete at once
C26_SendOutsideLock ==
    bcast.pc \in {"send", "stalled"} =>
        /\ ~lock_locked
        /\ \A c \in Conns :
              /\ ws_state[c] = "new" => ENABLED WsConnect(c, bcast.topic)
              /\ ws_state[c] = "open" => ENABLED WsDisconnect(c)

\* a send never completed; since the broadcast started, one connection
\* subscribed to its topic and another, not yet sent to, was unsubscribed
C26_Witness ==
    /\ bcast.pc = "stalled"
    /\ Subscribers(topic_to_connections, bcast.topic) \ bcast.at_start # {}
    /\ (bcast.at_start \ Range(bcast.attempts))
           \ Subscribers(topic_to_connections, bcast.topic) # {}

\* C27: whenever a send of a broadcast is pending, its failure and the
\* unsubscribe that follows can take place at once (the lock is free), and
\* every broadcast whose sends return or raise returns, while connections
\* subscribe and unsubscribe and another task broadcasts
C27_BroadcastReturns ==
    /\ [](bcast.pc = "send" => ENABLED BroadcastSendRaises)
    /\ [](bcast2.pc = "send" => ENABLED OtherBroadcastSendRaises)
    /\ (bcast.pc = "send") ~> (bcast.pc = "done")
    /\ (bcast2.pc = "send") ~> (bcast2.pc = "done")

\* both calls have returned after each removed a recipient whose send raised
C27_Witness ==
    /\ bcast.pc = "done" /\ bcast.failed # {}
    /\ bcast2.pc = "done" /\ bcast2.failed # {}
    /\ bcast.topic = bcast2.topic

\* C23 as stated: subscribing a connection to a topic it is subscribed to
\* succeeds without error and leaves it a member of the topic
C23_Original ==
    (mcall.op = "connect" /\ ws_state[mcall.ws] = "open"
        /\ mcall.ws \in Subscribers(topic_to_connections, mcall.topic))
        => ~mcall.raised

\* C29 as stated: every member of topic user:u1, and every connection a
\* broadcast to user:u1 delivered to, presented a valid token of user u1
C29_Original ==
    /\ \A c \in Subscribers(topic_to_connections, "user:u1") : ws_user[c] = "u1"
    /\ bcast.topic = "user:u1" => \A c \in bcast.delivered : ws_user[c] = "u1"

(* ------------------------------------------------------------------ *)
(* Claims about the dispatch of trigger_alert (SpecAlert)               *)
(* ------------------------------------------------------------------ *)

\* C2: when a send of trigger_alert's loop has raised, the failing recipient
\* is out of connected_alert_clients, and once trigger_alert has returned,
\* every selected recipient was sent the event (delivered unless its own send
\* raised) and the response is the success response
C2_SendFailureRecovered ==
    /\ trig.pc \in {"send", "done"} =>
          trig.failed \cap DOMAIN connected_alert_clients = {}
    /\ (trig.pc = "done" /\ trig.failed # {}) =>
          /\ trig.status = 200
          /\ Range(trig.attempts) = trig.recipients
          /\ (trig.recipients \ trig.failed) \subseteq trig.delivered

\* trigger_alert has returned success after a send raised and a later
\* recipient of the same call was delivered the event
C2_Witness ==
    /\ trig.pc = "done"
    /\ trig.status = 200
    /\ \E i, j \in DOMAIN trig.attempts :
          i < j /\ trig.attempts[i] \in trig.failed
                /\ trig.attempts[j] \in trig.delivered

\* C4 as stated: every trigger of a broadcast_all alert that has persisted its
\* row has, when it returns, sent the event to exactly the connections
\* registered at dispatch time
C4_Original ==
    (trig.pc = "done" /\ trig.inserted /\ trig.alert.broadcast_type = "broadcast_all")
        => Range(trig.attempts) = trig.at_dispatch

\* C4 amended: for broadcast_all the selected recipients are exactly the
\* connections registered at dispatch time, whatever their location and the
\* radius; sends go to them only; a trigger that returns success has sent to
\* every one of them, and one whose FCM-token query raised (500) to none
C4_BroadcastAllRecipients ==
    (trig.pc \in {"tokens", "send", "done"} /\ trig.inserted
        /\ trig.alert.broadcast_type = "broadcast_all") =>
        /\ trig.recipients = trig.at_dispatch
        /\ Range(trig.attempts) \subseteq trig.at_dispatch
        /\ (trig.pc = "done" /\ trig.status = 200) =>
              Range(trig.attempts) = trig.at_dispatch
        /\ (trig.pc = "done" /\ trig.status = 500) => trig.attempts = <<>>

\* a broadcast_all alert of radius 111 km has been sent to two connections
\* that still are as they were: one without location, one 111.19 km away
C4_Witness ==
    /\ trig.pc = "done" /\ trig.status = 200
    /\ trig.alert.broadcast_type = "broadcast_all"
    /\ trig.alert.radius_km = 111
    /\ \E c, d \in Range(trig.attempts) \cap DOMAIN connected_alert_clients :
          /\ connected_alert_clients[c].location = NoLocation
          /\ connected_alert_clients[d].location = <<Num(0), Num(1)>>

\* C5: in the step that dispatches a broadcast_neighborhood alert, the
\* recipients are exactly the registered connections that have a tracked
\* location (a pair of numbers) whose distance from the alert's location is
\* at most radius_km
C5_NeighborhoodRecipients ==
    [][(Len(alerts') > Len(alerts)
         /\ trig'.alert.broadcast_type = "broadcast_neighborhood") =>
            trig'.recipients =
                {c \in DOMAIN connected_alert_clients :
                    LET loc == connected_alert_clients[c].location
                        a == trig'.alert
                    IN /\ loc # NoLocation
                       /\ loc[1].kind = "num" /\ loc[2].kind = "num"
                       /\ a.location_lon.kind = "num"
                       /\ haversine(a.location_lat.v, a.location_lon.v,
                                    loc[1].v, loc[2].v) <= 1000 * a.radius_km}]_vars

\* a neighbourhood alert of radius 111 km is being sent: a connection
\* 111.19 km away was registered at dispatch and is no recipient, the other
\* connection is one
C5_Witness ==
    /\ trig.pc = "send"
    /\ trig.alert.broadcast_type = "broadcast_neighborhood"
    /\ trig.recipients # {}
    /\ \E c \in (trig.at_dispatch \ trig.recipients) \cap DOMAIN connected_alert_clients :
          connected_alert_clients[c].location = <<Num(0), Num(1)>>

\* C9: when the gateway call of a broadcast_all dispatch has raised, the
\* alert row is persisted, sends go on, and once trigger_alert has returned
\* the response is the success response and every connection registered at
\* dispatch time was sent the event
C9_GatewayFailureSwallowed ==
    trig.gateway = "failed" =>
        /\ trig.pc \in {"send", "done"}
        /\ trig.alert_id \in AlertIdsOf(alerts)
        /\ trig.pc = "done" =>
              /\ trig.status = 200
              /\ Range(trig.attempts) = trig.at_dispatch

\* the gateway call raised, and trigger_alert returned after delivering the
\* event to a registered connection
C9_Witness ==
    /\ trig.pc = "done"
    /\ trig.gateway = "failed"
    /\ trig.delivered # {}

\* C10 as stated: a broadcast_all trigger that returns success has invoked
\* the gateway exactly once, a broadcast_neighborhood one never
C10_Original ==
    (trig.pc = "done" /\ trig.status = 200) =>
        trig.gateway_calls =
            (IF trig.alert.broadcast_type = "broadcast_all" THEN 1 ELSE 0)

\* C10 amended: a dispatch invokes the gateway at most once; it does so
\* exactly when the alert is broadcast_all and the token query returned at
\* least one token; a broadcast_neighborhood dispatch never invokes it
C10_GatewayAtMostOnce ==
    /\ trig.gateway_calls \in {0, 1}
    /\ trig.gateway_calls = 1 <=> trig.gateway \in {"sent", "failed"}
    /\ trig.gateway \in {"sent", "failed"} =>
          trig.alert.broadcast_type = "broadcast_all" /\ trig.tokens # {}
    /\ trig.gateway = "no_tokens" =>
          trig.alert.broadcast_type = "broadcast_all" /\ trig.tokens = {}
    /\ (trig.inserted /\ trig.alert.broadcast_type = "broadcast_all"
           /\ trig.pc \in {"send", "done"}) => trig.gateway # "none"
    /\ trig.alert.broadcast_type = "broadcast_neighborhood" =>
          trig.gateway = "none" /\ trig.gateway_calls = 0

\* a broadcast_all trigger has returned success after one gateway call
C10_Witness ==
    /\ trig.pc = "done" /\ trig.status = 200
    /\ trig.alert.broadcast_type = "broadcast_all"
    /\ trig.gateway = "sent"
    /\ trig.gateway_calls = 1

\* C11: within one trigger_alert call no connection is sent the event twice:
\* the sends of the call go to pairwise different connections, and a
\* connection whose send raised is not sent to again
C11_AtMostOncePerCall ==
    /\ Len(trig.attempts) = Cardinality(Range(trig.attempts))
    /\ trig.failed \cap trig.delivered = {}
    /\ trig.pc = "send" =>
          /\ trig.ws = trig.attempts[Len(trig.attempts)]
          /\ trig.ws \notin trig.failed \cup trig.delivered

\* a trigger_alert call has returned after two sends, the first of which
\* raised
C11_Witness ==
    /\ trig.pc = "done"
    /\ Len(trig.attempts) >= 2
    /\ trig.attempts[1] \in trig.failed

\* C20 as stated: no row is written and no send is made for a
\* broadcast_neighborhood request whose radius_km is not positive or whose
\* location lacks a coordinate
C20_Original ==
    (/\ trig.alert.broadcast_type = "broadcast_neighborhood"
     /\ \/ trig.alert.radius_km <= 0
        \/ trig.alert.location_lat.kind # "num"
        \/ trig.alert.location_lon.kind # "num")
        => (~trig.inserted /\ trig.attempts = <<>> /\ trig.status # 200)

\* C28: whenever trigger_alert is sending or has sent the event, its insert
\* has returned and the table holds the row whose id and created_at the
\* event carries; a call whose insert failed sends nothing
C28_EventAfterPersist ==
    /\ (trig.pc = "send" \/ trig.attempts # <<>>) =>
          /\ trig.inserted
          /\ \E i \in DOMAIN alerts :
                /\ alerts[i].id = trig.alert_id
                /\ alerts[i].created_at = trig.created_at
                /\ alerts[i].message = trig.alert.message
                /\ alerts[i].triggered_by = trig.user.id
    /\ ~trig.inserted =>
          /\ trig.pc \in {"idle", "done"}
          /\ trig.attempts = <<>> /\ trig.delivered = {} /\ trig.failed = {}
          /\ trig.gateway_calls = 0

\* the event of the second alert is being sent to the second of two
\* recipients, and the table holds that alert's row
C28_Witness ==
    /\ trig.pc = "send"
    /\ Len(trig.attempts) = 2
    /\ Len(alerts) = 2
    /\ alerts[2].id = trig.alert_id

\* C21: in the step that dispatches a broadcast_neighborhood alert, a
\* connection whose stored location makes the distance computation fail (a
\* coordinate that is no number) is no recipient, every other connection with
\* a location is a recipient exactly when it is within the radius, and the
\* call goes on to its sends or returns success
C21_DistanceFailureSkipsOne ==
    [][(Len(alerts') > Len(alerts)
         /\ trig'.alert.broadcast_type = "broadcast_neighborhood"
         /\ trig'.alert.location_lon.kind = "num") =>
            LET a == trig'.alert
                bad == {c \in DOMAIN connected_alert_clients :
                          /\ connected_alert_clients[c].location # NoLocation
                          /\ \E i \in 1..2 :
                                connected_alert_clients[c].location[i].kind = "str"}
                good == {c \in DOMAIN connected_alert_clients :
                          /\ connected_alert_clients[c].location # NoLocation
                          /\ \A i \in 1..2 :
                                connected_alert_clients[c].location[i].kind = "num"}
            IN /\ bad \cap trig'.recipients = {}
               /\ \A c \in good :
                     c \in trig'.recipients <=>
                        haversine(a.location_lat.v, a.location_lon.v,
                                  connected_alert_clients[c].location[1].v,
                                  connected_alert_clients[c].location[2].v)
                            <= 1000 * a.radius_km
               /\ trig'.status # 500
               /\ trig'.pc = "send" \/ (trig'.pc = "done" /\ trig'.status = 200)]_vars

\* a neighbourhood alert is being sent to a connection within the radius
\* while the other connection, registered at dispatch with a longitude that
\* is no number, was skipped
C21_Witness ==
    /\ trig.pc = "send"
    /\ trig.alert.broadcast_type = "broadcast_neighborhood"
    /\ \E c \in trig.recipients \cap DOMAIN connected_alert_clients :
          connected_alert_clients[c].location = <<Num(0), Num(0)>>
    /\ \E c \in (trig.at_dispatch \ trig.recipients) \cap DOMAIN connected_alert_clients :
          connected_alert_clients[c].location = <<Num(0), BadStr>>

(* ------------------------------------------------------------------ *)
(* Claims about the stream handlers (SpecHandlers)                      *)
(* ------------------------------------------------------------------ *)

\* C12 as stated: a connection whose handler has ended is in no topic's
\* subscriber set and has no entry in connected_alert_clients
C12_Original ==
    /\ \A c \in Conns : ws_state[c] = "closed" =>
          \A t \in DOMAIN topic_to_connections : c \notin topic_to_connections[t]
    /\ \A c \in AlertConns : aws_state[c] = "closed" =>
          c \notin DOMAIN connected_alert_clients

\* C22 as stated: a text frame that json.loads rejects, or that is not a
\* register_location object with numeric lat and lon and a user_id, leaves
\* the sender open and registered and changes no entry of
\* connected_alert_clients
C22_Original ==
    [][(received' # received
          /\ LET msg == json_loads(received'.data)
             IN \/ msg.raises
                \/ ~msg.is_dict
                \/ msg.type # "register_location"
                \/ msg.lat.kind # "num"
                \/ msg.lon.kind # "num"
                \/ msg.user_id = NoUser) =>
            /\ aws_state'[received'.ws] = "open"
            /\ received'.ws \in DOMAIN connected_alert_clients'
            /\ connected_alert_clients' = connected_alert_clients]_vars

\* C25: a register_location frame from a websocket that is not in
\* connected_alert_clients when the frame is handled leaves the handler in its
\* receive loop, leaves every other connection's entry as it was, and either
\* leaves the dict unchanged or adds the sender with the frame's values only;
\* the trigger_alert call in progress is not affected
C25_RegisterAfterRemoval ==
    [][(received' # received /\ ~received'.known) =>
          LET c == received'.ws
              msg == json_loads(received'.data)
          IN /\ aws_state'[c] = "open"
             /\ DOMAIN connected_alert_clients' \ {c} = DOMAIN connected_alert_clients
             /\ \A w \in DOMAIN connected_alert_clients :
                   connected_alert_clients'[w] = connected_alert_clients[w]
             /\ \/ connected_alert_clients' = connected_alert_clients
                \/ /\ c \in DOMAIN connected_alert_clients'
                   /\ connected_alert_clients'[c] =
                         [location |-> <<msg.lat, msg.lon>>, user_id |-> msg.user_id]
             /\ trig' = trig]_vars

\* a connection removed after its send raised has sent a register_location
\* frame with a location; its handler is still receiving, it is still out of
\* the dict, and the other connection keeps its registered location
C25_Witness ==
    /\ ~received.known
    /\ received.ws \in trig.failed
    /\ json_loads(received.data).lat = Num(0)
    /\ aws_state[received.ws] = "open"
    /\ received.ws \notin DOMAIN connected_alert_clients
    /\ \E w \in DOMAIN connected_alert_clients :
          connected_alert_clients[w].location = <<Num(0), Num(0)>>

(* ------------------------------------------------------------------ *)
(* Claims about the incidents (SpecIncident)                            *)
(* ------------------------------------------------------------------ *)

\* C30 as stated: a reject_incident call that set an incident's status to
\* REJECTED found it PENDING at the moment of its update
C30_Original ==
    \A k \in RejectCalls :
        (rej[k].pc = "done" /\ rej[k].status = 200) => rej[k].before = "PENDING"

(* ------------------------------------------------------------------ *)
(* Claims about trigger_alert and resolve_alert (SpecLifecycle)         *)
(* ------------------------------------------------------------------ *)

\* C6: a trigger or resolve call by a user whose role is not
\* emergency_service ends with 403 in the step that starts it, and that step
\* changes neither the table nor the registry, sends nothing and makes no
\* gateway call
C6_DeniedNoSideEffects ==
    [][/\ (trig.pc \in {"idle", "done"} /\ trig' # trig
             /\ trig'.user.role # "emergency_service") =>
            /\ trig'.pc = "done" /\ trig'.status = 403
            /\ ~trig'.inserted
            /\ trig'.attempts = <<>>
            /\ trig'.gateway_calls = 0
            /\ UNCHANGED <<alerts, connected_alert_clients, fcm_tokens, res>>
       /\ (res' # res /\ res'.user.role # "emergency_service") =>
            /\ res'.status = 403
            /\ UNCHANGED <<alerts, connected_alert_clients, fcm_tokens, trig>>]_vars

\* a citizen's trigger and a non-privileged resolve were both denied while an
\* alert exists and a connection is registered
C6_Witness ==
    /\ trig.pc = "done" /\ trig.status = 403 /\ trig.user.role = "citizen"
    /\ res.status = 403
    /\ Len(alerts) >= 1
    /\ DOMAIN connected_alert_clients # {}

\* C7: a step that adds to the table adds one row, at the end, with status
\* ACTIVE and an id no existing row has, for an emergency_service user; and a
\* trigger that returns success returns the id and created_at of the row it
\* inserted
C7_TriggerAddsOneActiveAlert ==
    [][/\ Len(alerts') > Len(alerts) =>
            /\ Len(alerts') = Len(alerts) + 1
            /\ SubSeq(alerts', 1, Len(alerts)) = alerts
            /\ alerts'[Len(alerts')].status = "ACTIVE"
            /\ alerts'[Len(alerts')].id \notin AlertIdsOf(alerts)
            /\ alerts'[Len(alerts')].created_at = now
            /\ trig'.user.role = "emergency_service"
            /\ trig'.inserted
            /\ trig'.alert_id = alerts'[Len(alerts')].id
            /\ trig'.created_at = alerts'[Len(alerts')].created_at
       /\ (trig'.pc = "done" /\ trig'.status = 200) =>
            /\ trig'.inserted
            /\ trig'.response.alert_id = trig'.alert_id
            /\ trig'.response.created_at = trig'.created_at
            /\ \E i \in DOMAIN alerts' :
                  /\ alerts'[i].id = trig'.response.alert_id
                  /\ alerts'[i].created_at = trig'.response.created_at]_vars

\* the second alert was triggered after the clock advanced and its id and
\* created_at were returned
C7_Witness ==
    /\ trig.pc = "done" /\ trig.status = 200
    /\ Len(alerts) = 2
    /\ trig.response.alert_id = alerts[2].id
    /\ trig.response.created_at = 1
    /\ alerts[2].created_at = 1

\* C8: when the dispatch raised after the insert (the FCM-token query
\* failed), trigger_alert has returned 500 and get_alert_by_id still returns
\* the row
C8_RowSurvivesDispatchError ==
    trig.gateway = "tokens_error" =>
        /\ trig.pc = "done" /\ trig.status = 500 /\ trig.inserted
        /\ get_alert_by_id(alerts, trig.alert_id).status = 200
        /\ \E r \in get_alert_by_id(alerts, trig.alert_id).data :
              r.id = trig.alert_id /\ r.created_at = trig.created_at

\* the token query of a broadcast_all trigger raised after the insert, and
\* the alert was resolved afterwards
C8_Witness ==
    /\ trig.gateway = "tokens_error"
    /\ res.status = 200 /\ res.alert_id = trig.alert_id

\* C15: every alert's status is ACTIVE or RESOLVED, never COOLDOWN, and no
\* step takes a RESOLVED alert to another status
C15_ActiveThenResolved ==
    [][/\ \A i \in DOMAIN alerts' : alerts'[i].status \in {"ACTIVE", "RESOLVED"}
       /\ \A i \in DOMAIN alerts :
             /\ i \in DOMAIN alerts'
             /\ alerts'[i].id = alerts[i].id
             /\ alerts[i].status = "RESOLVED" => alerts'[i].status = "RESOLVED"]_vars

\* one alert is resolved, a second call resolved it again later, another
\* alert is active
C15_Witness ==
    \E i, j \in DOMAIN alerts :
        /\ alerts[i].status = "RESOLVED" /\ alerts[i].cooldown_until = 1 + Hour
        /\ alerts[j].status = "ACTIVE"
        /\ res.status = 200 /\ res.alert_id = alerts[i].id

\* C16: a resolve_alert call by an emergency_service user that returns
\* success returns the id of an existing alert, and its step sets that
\* alert's status to RESOLVED and its cooldown_until to the clock plus one
\* hour and changes nothing else in the table
C16_ResolveSetsCooldown ==
    [][(res'.status = 200 /\ Len(alerts') = Len(alerts)
           /\ (res' # res \/ alerts' # alerts)) =>
          /\ res'.user.role = "emergency_service"
          /\ \E i \in DOMAIN alerts :
                /\ alerts[i].id = res'.alert_id
                /\ alerts'[i].status = "RESOLVED"
                /\ alerts'[i].cooldown_until = now + 3600
                /\ alerts'[i] = [alerts[i] EXCEPT !.status = "RESOLVED",
                                                  !.cooldown_until = now + 3600]
                /\ \A j \in DOMAIN alerts \ {i} : alerts'[j] = alerts[j]]_vars

\* the second of two alerts was resolved at time 1 and the first is still
\* active
C16_Witness ==
    /\ Len(alerts) = 2
    /\ res.status = 200 /\ res.alert_id = alerts[2].id
    /\ alerts[2].status = "RESOLVED" /\ alerts[2].cooldown_until = 3601
    /\ alerts[1].status = "ACTIVE" /\ alerts[1].cooldown_until = NoTime

C18_OnlyResolveChangesRows ==
    [][/\ Len(alerts') >= Len(alerts)
       /\ AlertIdsOf(alerts) \subseteq AlertIdsOf(alerts')
       /\ \A i \in DOMAIN alerts :
             /\ i \in DOMAIN alerts'
             /\ alerts'[i].id = alerts[i].id
             /\ alerts'[i] # alerts[i] =>
                   /\ res'.status = 200 /\ res'.alert_id = alerts[i].id
                   /\ Len(alerts') = Len(alerts)
                   /\ trig' = trig /\ listed' = listed
       /\ (trig' # trig \/ listed' # listed) =>
             \A i \in DOMAIN alerts : alerts'[i] = alerts[i]]_vars

\* a second alert was triggered and the active alerts were listed while the
\* first alert, resolved before, is still in the table
C18_Witness ==
    /\ Len(alerts) = 2
    /\ alerts[1].status = "RESOLVED"
    /\ trig.pc = "done" /\ trig.alert_id = alerts[2].id
    /\ listed.status = 200 /\ Len(listed.data) = 1

\* C19: a get_all_active_alerts call that succeeds returns every row whose
\* status is ACTIVE at that moment once, no other row, in an order in which
\* created_at never increases
C19_ListActive ==
    [][(listed' # listed /\ listed'.status = 200) =>
          LET out == listed'.data IN
          /\ Range(out) = {alerts[i] : i \in {j \in DOMAIN alerts : alerts[j].status = "ACTIVE"}}
          /\ Len(out) = Cardinality({j \in DOMAIN alerts : alerts[j].status = "ACTIVE"})
          /\ \A k \in DOMAIN out : out[k].status = "ACTIVE"
          /\ \A k, l \in DOMAIN out : k < l => out[k].created_at >= out[l].created_at]_vars

\* the listing holds the alert triggered at time 1 before the one triggered
\* at time 0
C19_Witness ==
    /\ listed.status = 200
    /\ Len(listed.data) = 2
    /\ listed.data[1].created_at = 1
    /\ listed.data[2].created_at = 0

====
